---- MODULE Spec2Model ----
(***************************************************************************)
(* Model of lmcontrol.nn.dataset: the LMDataset sample store (construction, *)
(* label encoding, stratified split, per-index access) and the transform   *)
(* composer get_transforms with the TRANSFORMS registry.                   *)
(*                                                                         *)
(* Conventions.  Python None is the empty tuple <<>> wherever the other    *)
(* values are non-empty sequences or mappings; a missing seed is NoSeed;   *)
(* a val_size is a percentage (0 stands for None / a falsy value).         *)
(* Indices are 0-based as in the source; x[i + 1] reads position i.        *)
(***************************************************************************)
EXTENDS Integers, Sequences, FiniteSets, TLC

VARIABLES
    metadata,     \* what load_npzs returns: label key -> raw value per sample
    TRANSFORMS,   \* the module-level registry: the set of registered keys
    pipeline,     \* outcome of the last get_transforms call
    ds,           \* the LMDataset instances, by slot
    out           \* outcome of the last access operation

vars == <<metadata, TRANSFORMS, pipeline, ds, out>>

(***************************************************************************)
(* Bounds.                                                                 *)
(***************************************************************************)
NumSamples == 4       \* samples in the loaded archives
MaxNames == 2         \* longest argument list given to get_transforms
NumRngStates == 5     \* states the global random generator may be in

None == <<>>
NoSeed == 0 - 1

Range(s) == {s[i] : i \in DOMAIN s}

RECURSIVE SeqsUpTo(_, _)
SeqsUpTo(S, n) ==
    IF n = 0 THEN {<<>>}
    ELSE LET shorter == SeqsUpTo(S, n - 1)
         IN  shorter \cup {Append(s, x) : s \in {t \in shorter : Len(t) = n - 1}, x \in S}

(***************************************************************************)
(* Tensors.  A sample is abstracted to what the transforms change: its     *)
(* origin (source array and original index), channel count, spatial size,  *)
(* dtype, and the sequence of pixel-level operations applied to it.        *)
(***************************************************************************)
Tensor(src, id, size, dtype) ==
    [src |-> src, id |-> id, chan |-> 1, size |-> size, dtype |-> dtype, ops |-> <<>>]

Raised(what) == [raised |-> what]
IsRaised(x) == "raised" \in DOMAIN x

(***************************************************************************)
(* The registry and its primitives (dataset.py 168-178).  coin is the      *)
(* outcome of the primitive's random draw; deterministic ones ignore it.   *)
(***************************************************************************)
RegistryKeys == {"blur", "rotate", "crop", "hflip", "vflip", "noise", "rgb", "float", "norm"}

CropSize == 64

Touch(x, name) == [x EXCEPT !.ops = Append(@, name)]

GaussianNoise(x, coin) == IF coin THEN Touch(x, "noise") ELSE x

Norm(x) ==
    IF x.dtype = "uint8" THEN Raised("RuntimeError")   \* mean() of an integer tensor
    ELSE Touch(x, "norm")

ApplyTransform(name, x, coin) ==
    IF IsRaised(x) THEN x
    ELSE CASE name = "blur"   -> Touch(x, "blur")
           [] name = "rotate" -> Touch(x, "rotate")
           [] name = "crop"   -> [Touch(x, "crop") EXCEPT !.size = CropSize]
           [] name = "hflip"  -> IF coin THEN Touch(x, "hflip") ELSE x
           [] name = "vflip"  -> IF coin THEN Touch(x, "vflip") ELSE x
           [] name = "noise"  -> GaussianNoise(x, coin)
           [] name = "rgb"    -> [Touch(x, "rgb") EXCEPT !.chan = 3 * @]
           [] name = "float"  -> [Touch(x, "float") EXCEPT !.dtype = "float32"]
           [] name = "norm"   -> Norm(x)
           [] OTHER           -> Raised("KeyError")

(***************************************************************************)
(* get_transforms (dataset.py 181-211).  The result is the identity        *)
(* lambda, the registered transform itself, a T.Compose over the list, or  *)
(* a raised ValueError.                                                    *)
(***************************************************************************)
RECURSIVE CollectTransforms(_, _, _)
CollectTransforms(transforms, registry, ret) ==
    IF transforms = <<>> THEN [kind |-> "list", names |-> ret]
    ELSE IF Head(transforms) \notin registry THEN [kind |-> "ValueError", names |-> <<>>]
    ELSE CollectTransforms(Tail(transforms), registry, Append(ret, Head(transforms)))

RECURSIVE CollectSkipUnknown(_, _, _)
CollectSkipUnknown(transforms, registry, ret) ==
    IF transforms = <<>> THEN [kind |-> "list", names |-> ret]
    ELSE CollectSkipUnknown(Tail(transforms), registry, Append(ret, Head(transforms)))

\* Variant: an unknown key is appended unchecked instead of raising.
get_transforms_lenient(transforms, registry) ==
    IF Len(transforms) = 0 THEN [kind |-> "identity", names |-> <<>>]
    ELSE LET c == CollectSkipUnknown(transforms, registry, <<>>)
         IN  IF Len(c.names) = 1 THEN [kind |-> "single", names |-> c.names]
             ELSE [kind |-> "compose", names |-> c.names]

\* Variant: returns ret[0] whenever the list is non-empty.
get_transforms_first(transforms, registry) ==
    IF Len(transforms) = 0 THEN [kind |-> "identity", names |-> <<>>]
    ELSE LET c == CollectTransforms(transforms, registry, <<>>)
         IN  IF c.kind = "ValueError" THEN c
             ELSE [kind |-> "single", names |-> <<c.names[1]>>]

get_transforms(transforms, registry) ==
    IF Len(transforms) = 0 THEN [kind |-> "identity", names |-> <<>>]
    ELSE LET c == CollectTransforms(transforms, registry, <<>>)
         IN  IF c.kind = "ValueError" THEN c
             ELSE IF Len(c.names) = 1 THEN [kind |-> "single", names |-> c.names]
             ELSE [kind |-> "compose", names |-> c.names]

(***************************************************************************)
(* Calling what get_transforms returned: the identity lambda, a registered *)
(* transform, or T.Compose, which feeds each transform the output of the   *)
(* previous one.  coins[k] is the random draw of the k-th stage.           *)
(***************************************************************************)
RECURSIVE Compose(_, _, _, _)
Compose(names, x, coins, k) ==
    IF k > Len(names) THEN x
    ELSE Compose(names, ApplyTransform(names[k], x, coins[k]), coins, k + 1)

Call(tfm, x, coins) ==
    CASE tfm.kind = "identity" -> x
      [] tfm.kind = "single"   -> ApplyTransform(tfm.names[1], x, coins[1])
      [] tfm.kind = "compose"  -> Compose(tfm.names, x, coins, 1)

Callable(tfm) == tfm.kind \in {"identity", "single", "compose"}

(***************************************************************************)
(* The external collaborators of the sample store.                         *)
(***************************************************************************)
IsNone(x) == DOMAIN x = {}

Keys == {"ht", "time"}

Path(id) == <<"npz", id>>

\* load_npzs: stacked masks and images, an index-aligned path sequence and
\* the metadata columns, all of the same sample count.
load_npzs(md) ==
    [masks    |-> [i \in 1..NumSamples |-> Tensor("mask", i - 1, 128, "uint8")],
     images   |-> [i \in 1..NumSamples |-> Tensor("image", i - 1, 128, "uint8")],
     paths    |-> [i \in 1..NumSamples |-> Path(i - 1)],
     metadata |-> md]

RECURSIVE SortSet(_)
SortSet(S) ==
    IF S = {} THEN <<>>
    ELSE LET m == CHOOSE x \in S : \A y \in S : x <= y
         IN  <<m>> \o SortSet(S \ {m})

IndexOf(seq, v) == (CHOOSE i \in DOMAIN seq : seq[i] = v) - 1

\* encode_labels: regression passes the raw values through; classification
\* maps each value to its position in the class sequence, which is the
\* supplied one or, without one, the sorted distinct values.
encode_labels(values, mode, classes) ==
    IF mode = "regression" THEN [labels |-> values, classes |-> None]
    ELSE LET cls == IF IsNone(classes) THEN SortSet(Range(values)) ELSE classes
         IN  IF \E i \in DOMAIN values : values[i] \notin Range(cls)
             THEN Raised("UnknownLabelValue")
             ELSE [labels |-> [i \in DOMAIN values |-> IndexOf(cls, values[i])],
                   classes |-> cls]

(***************************************************************************)
(* sklearn's train_test_split(indices, test_size, random_state, stratify)  *)
(* as called at dataset.py 132-134: a stratified shuffle split.  rng is    *)
(* the generator state; it fixes the shuffle, so equal states give equal   *)
(* splits.  Both results come back in shuffled order.                      *)
(***************************************************************************)
RngStates == 0..(NumRngStates - 1)

\* An integer seed fixes the generator state; without one the state of the
\* global generator is used, which is whatever earlier draws left.
check_random_state(seed, global_state) ==
    IF seed = NoSeed THEN global_state ELSE (seed + 1) % NumRngStates

RemoveAt(s, k) == [i \in 1..(Len(s) - 1) |-> IF i < k THEN s[i] ELSE s[i + 1]]

RECURSIVE Permutation(_, _)
Permutation(rng, s) ==
    IF s = <<>> THEN <<>>
    ELSE LET k == (rng % Len(s)) + 1
         IN  <<s[k]>> \o Permutation(rng \div Len(s), RemoveAt(s, k))

RECURSIVE SumOver(_, _)
SumOver(S, f) ==
    IF S = {} THEN 0
    ELSE LET c == CHOOSE x \in S : TRUE
         IN  f[c] + SumOver(S \ {c}, f)

train_test_split(indices, test_size, rng, stratify) ==
    LET n        == Len(indices)
        n_test   == (test_size * n + 99) \div 100
        n_train  == n - n_test
        classes  == Range(stratify)
        members  == [c \in classes |-> {i \in 1..n : stratify[i] = c}]
        count    == [c \in classes |-> Cardinality(members[c])]
        order    == Permutation(rng, [i \in 1..n |-> i])
        firstpos == [c \in classes |-> CHOOSE k \in 1..n :
                        /\ stratify[order[k]] = c
                        /\ \A j \in 1..(k - 1) : stratify[order[j]] # c]
        floored  == [c \in classes |-> (count[c] * n_train) \div n]
        rest     == [c \in classes |-> (count[c] * n_train) % n]
        need     == n_train - SumOver(classes, floored)
        ahead    == [c \in classes |-> {d \in classes :
                        \/ rest[d] > rest[c]
                        \/ rest[d] = rest[c] /\ firstpos[d] < firstpos[c]}]
        n_i      == [c \in classes |->
                        floored[c] + (IF Cardinality(ahead[c]) < need THEN 1 ELSE 0)]
        rank     == [k \in 1..n |-> Cardinality({j \in 1..(k - 1) :
                        stratify[order[j]] = stratify[order[k]]})]
        picked   == [k \in 1..n |-> rank[k] < n_i[stratify[order[k]]]]
        at       == [k \in 1..n |-> indices[order[k]]]
        pos      == [k \in 1..n |-> k]
    IN  IF n_test = 0 \/ n_train = 0 THEN Raised("ValueError")
        ELSE IF \E c \in classes : count[c] < 2 THEN Raised("ValueError")
        ELSE IF n_train < Cardinality(classes) \/ n_test < Cardinality(classes)
             THEN Raised("ValueError")
        ELSE LET tr == SelectSeq(pos, LAMBDA k : picked[k])
                 te == SelectSeq(pos, LAMBDA k : ~picked[k])
             IN  [train |-> [k \in 1..Len(tr) |-> at[tr[k]]],
                  test  |-> [k \in 1..Len(te) |-> at[te[k]]]]

(***************************************************************************)
(* LMDataset (dataset.py 66-159).  An instance is a record of the fields   *)
(* the class sets, plus `called`: what the constructor was given and what  *)
(* it passed to its collaborators.                                         *)
(***************************************************************************)
regression_labels == {"time"}

is_regression(label) == label \in regression_labels

NoTransform == [kind |-> "None", names |-> <<>>]

Unbuilt == [status |-> "none"]

DictGet(d, k) == IF k \in DOMAIN d THEN d[k] ELSE None

DictSet(d, k, v) == [key \in (DOMAIN d) \cup {k} |-> IF key = k THEN v ELSE d[key]]

Take(s, idx) == [k \in 1..Len(idx) |-> s[idx[k] + 1]]

\* Lines 105-117: one encoding per requested key, in the given order.  st
\* carries self.label_type, self.label_classes, tmp and the classes
\* arguments handed to encode_labels.
RECURSIVE LabelLoop(_, _, _)
LabelLoop(md, label_type, st) ==
    IF IsRaised(st) \/ label_type = <<>> THEN st
    ELSE IF Head(label_type) \notin DOMAIN md THEN Raised("KeyError")
    ELSE LET k == Head(label_type)
             given == DictGet(st.label_classes, k)
             enc == IF is_regression(k)
                    THEN encode_labels(md[k], "regression", None)
                    ELSE encode_labels(md[k], "classification", given)
         IN  IF IsRaised(enc) THEN enc
             ELSE LabelLoop(md, Tail(label_type),
                    [label_type    |-> Append(st.label_type, k),
                     label_classes |-> DictSet(st.label_classes, k, enc.classes),
                     tmp           |-> Append(st.tmp, enc.labels),
                     enc_calls     |-> IF is_regression(k) THEN st.enc_calls
                                       ELSE Append(st.enc_calls, [key |-> k, classes |-> given])])

\* Lines 102-104: the state the loop starts from; self.label_classes is
\* reset to an empty dict whatever the constructor was given.
LoopStart(label_classes) ==
    [label_type |-> <<>>, label_classes |-> <<>>, tmp |-> <<>>, enc_calls |-> <<>>]

\* Variant: labels are narrowed by the other index set.
Narrow_crossed(self, split, s) ==
    IF split = "train"
    THEN [self EXCEPT !.data = Take(self.data, s.train),
                      !.labels = [j \in DOMAIN self.labels |-> Take(self.labels[j], s.test)]]
    ELSE IF split = "validate"
    THEN [self EXCEPT !.data = Take(self.data, s.test),
                      !.labels = [j \in DOMAIN self.labels |-> Take(self.labels[j], s.train)]]
    ELSE self

\* Variant: both branches keep the training indices.
Narrow_trainonly(self, split, s) ==
    IF split \in {"train", "validate"}
    THEN [self EXCEPT !.data = Take(self.data, s.train),
                      !.labels = [j \in DOMAIN self.labels |-> Take(self.labels[j], s.train)]]
    ELSE self

\* Lines 136-141: data and every label tensor narrowed to one index set.
Narrow(self, split, s) ==
    IF split = "train"
    THEN [self EXCEPT !.data = Take(self.data, s.train),
                      !.labels = [j \in DOMAIN self.labels |-> Take(self.labels[j], s.train)]]
    ELSE IF split = "validate"
    THEN [self EXCEPT !.data = Take(self.data, s.test),
                      !.labels = [j \in DOMAIN self.labels |-> Take(self.labels[j], s.test)]]
    ELSE self

\* Lines 125-141.
split_data(self, split, val_size, rng) ==
    IF IsNone(self.labels) THEN Raised("TypeError")     \* iterating over None
    ELSE LET num_samples == Len(self.data)
             indices == [i \in 1..num_samples |-> i - 1]
             composite_label == [i \in 1..num_samples |->
                                    [j \in DOMAIN self.labels |-> self.labels[j][i]]]
             s == train_test_split(indices, val_size, rng, composite_label)
         IN  IF IsRaised(s) THEN s
             ELSE [Narrow(self, split, s) EXCEPT
                      !.called.split_called = TRUE,
                      !.called.train_indices = s.train,
                      !.called.val_indices = s.test]

\* Lines 74-123.  a is the argument record; global_state is the state of the
\* global random generator at the time of the call.
LMDataset(a, md, global_state) ==
    IF a.npzs = "not array-like" \/ a.npzs = "empty" THEN Raised("ValueError")
    ELSE LET loaded == load_npzs(md)
             label_type == IF a.label_type.is_list THEN a.label_type.value
                           ELSE <<a.label_type.value>>
             base == [status        |-> "ok",
                      data          |-> IF a.use_masks THEN loaded.masks ELSE loaded.images,
                      paths         |-> loaded.paths,
                      transform     |-> a.transform,
                      labels        |-> None,
                      label_classes |-> a.label_classes,
                      label_type    |-> None,
                      called        |-> [args |-> a, label_type |-> label_type,
                                         enc_calls |-> <<>>, split_called |-> FALSE,
                                         train_indices |-> <<>>, val_indices |-> <<>>]]
             st == LabelLoop(loaded.metadata, label_type, LoopStart(a.label_classes))
             labelled == IF ~a.return_labels THEN base
                         ELSE IF IsRaised(st) THEN st
                         ELSE [base EXCEPT !.labels = st.tmp,
                                           !.label_classes = st.label_classes,
                                           !.label_type = st.label_type,
                                           !.called.enc_calls = st.enc_calls]
         IN  IF IsRaised(labelled) THEN labelled
             ELSE IF a.val_size # 0
                  THEN split_data(labelled, a.split, a.val_size,
                                  check_random_state(a.seed, global_state))
             ELSE labelled

\* Variant: the label tuple is built from the last tensor to the first.
getitem_reversed(self, i, coins) ==
    LET ret == IF self.transform = NoTransform THEN self.data[i + 1]
               ELSE Call(self.transform, self.data[i + 1], coins)
        n == Len(self.labels)
    IN  IF IsNone(self.labels) THEN [sample |-> ret, labels |-> None, paired |-> FALSE]
        ELSE [sample |-> ret,
              labels |-> [j \in 1..n |-> self.labels[n + 1 - j][i + 1]],
              paired |-> TRUE]

\* Lines 143-152.  coins are the random draws of the transform's stages.
getitem(self, i, coins) ==
    LET ret == IF self.transform = NoTransform THEN self.data[i + 1]
               ELSE Call(self.transform, self.data[i + 1], coins)
    IN  IF IsNone(self.labels) THEN [sample |-> ret, labels |-> None, paired |-> FALSE]
        ELSE [sample |-> ret,
              labels |-> [j \in 1..Len(self.labels) |-> self.labels[j][i + 1]],
              paired |-> TRUE]

\* Lines 154-155.
len(self) == Len(self.data)

\* Lines 157-159.
index_to_filename(dataset, i) == dataset.paths[i + 1]

(***************************************************************************)
(* Inputs.                                                                 *)
(***************************************************************************)
Slots == {1, 2}

\* Raw metadata columns of the archives: the class column "ht" and the
\* continuous column "time".
HtColumns ==
    {[i \in 1..NumSamples |-> 5],
     [i \in 1..NumSamples |-> IF 2 * i <= NumSamples THEN 10 ELSE 5],
     [i \in 1..NumSamples |-> IF i % 2 = 1 THEN 5 ELSE 10],
     [i \in 1..NumSamples |-> IF i = 1 THEN 10 ELSE 5]}

TimeColumn == [i \in 1..NumSamples |-> (i - 1) % 2]

\* Names handed to get_transforms: registered keys and one that is not.
Names == {"crop", "rgb", "float", "hflip", "noise", "norm", "sharpen"}

LabelTypeArgs ==
    {[is_list |-> FALSE, value |-> "ht"],
     [is_list |-> TRUE, value |-> <<"time">>],
     [is_list |-> TRUE, value |-> <<"ht", "time">>],
     [is_list |-> TRUE, value |-> <<"time", "ht">>]}

NoLabelType == [is_list |-> FALSE, value |-> "None"]

LabelClassesArgs == {None, [ht |-> <<10, 5>>]}

TransformArgs ==
    {NoTransform,
     get_transforms(<<"crop", "float", "rgb">>, RegistryKeys),
     get_transforms(<<"hflip">>, RegistryKeys)}

Splits == {"None", "train", "validate"}

ValSizes == {0, 25, 50}

Seeds == {NoSeed, 0, 1}

\* Arguments the constructor does not read are left at their defaults.
ConstructorArgs ==
    {a \in [npzs : {"not array-like", "empty", "archives"},
            label_classes : LabelClassesArgs,
            use_masks : BOOLEAN,
            return_labels : BOOLEAN,
            transform : TransformArgs,
            label_type : LabelTypeArgs \cup {NoLabelType},
            split : Splits,
            val_size : ValSizes,
            seed : Seeds] :
        /\ a.val_size = 0 => a.split = "None" /\ a.seed = NoSeed
        /\ a.npzs # "archives" =>
              /\ a.label_classes = None /\ ~a.use_masks /\ ~a.return_labels
              /\ a.transform = NoTransform /\ a.val_size = 0}

NoOut == [op |-> "none"]

NotCalled == [called |-> FALSE, args |-> <<>>, kind |-> "None", names |-> <<>>]

Samples == {Tensor("image", 0, 128, "uint8"), Tensor("image", 1, 32, "float32")}

\* One draw per stage; only the stages applied with a probability read it.
Coins(names) ==
    {c \in [1..(IF Len(names) = 0 THEN 1 ELSE Len(names)) -> BOOLEAN] :
        \A k \in DOMAIN c :
            c[k] => (k \in DOMAIN names /\ names[k] \in {"hflip", "vflip", "noise"})}

(***************************************************************************)
(* State machine.                                                          *)
(***************************************************************************)
Init ==
    /\ metadata \in {[ht |-> h, time |-> TimeColumn] : h \in HtColumns}
    /\ TRANSFORMS = RegistryKeys
    /\ pipeline = NotCalled
    /\ ds = [s \in Slots |-> Unbuilt]
    /\ out = NoOut

\* LMDataset(npzs, ...): the first instance of a run.
Construct ==
    /\ ds[1] = Unbuilt
    /\ \E a \in ConstructorArgs, g \in RngStates :
          LET self == LMDataset(a, metadata, g)
          IN  ds' = [ds EXCEPT ![1] = IF IsRaised(self)
                                      THEN [status |-> "raised", error |-> self.raised]
                                      ELSE self]
    /\ out' = NoOut
    /\ UNCHANGED <<metadata, TRANSFORMS, pipeline>>

\* A second instance over the same archives with the same keyword
\* arguments, another split, and either the same label_classes argument or
\* the first instance's label_classes.
ConstructSibling ==
    /\ ds[1].status = "ok"
    /\ ds[2] = Unbuilt
    /\ \E split \in Splits, g \in RngStates, reuse \in BOOLEAN :
          LET a == [ds[1].called.args EXCEPT
                       !.split = IF @ = "None" /\ ds[1].called.args.val_size = 0
                                 THEN @ ELSE split,
                       !.label_classes = IF reuse THEN ds[1].label_classes ELSE @]
              self == LMDataset(a, metadata, g)
          IN  ds' = [ds EXCEPT ![2] = IF IsRaised(self)
                                      THEN [status |-> "raised", error |-> self.raised]
                                      ELSE self]
    /\ out' = NoOut
    /\ UNCHANGED <<metadata, TRANSFORMS, pipeline>>

\* dataset[i]
GetItem ==
    /\ \E s \in Slots :
          /\ ds[s].status = "ok"
          /\ \E i \in 0..(len(ds[s]) - 1), coins \in Coins(ds[s].transform.names) :
                out' = [op |-> "getitem", slot |-> s, i |-> i, coins |-> coins,
                        value |-> getitem(ds[s], i, coins)]
    /\ UNCHANGED <<metadata, TRANSFORMS, pipeline, ds>>

\* len(dataset)
LenOp ==
    /\ \E s \in Slots :
          /\ ds[s].status = "ok"
          /\ out' = [op |-> "len", slot |-> s, value |-> len(ds[s])]
    /\ UNCHANGED <<metadata, TRANSFORMS, pipeline, ds>>

\* LMDataset.index_to_filename(dataset, i), for the indices the dataset serves
IndexToFilename ==
    /\ \E s \in Slots :
          /\ ds[s].status = "ok"
          /\ \E i \in 0..(len(ds[s]) - 1) :
                out' = [op |-> "index_to_filename", slot |-> s, i |-> i,
                        value |-> index_to_filename(ds[s], i)]
    /\ UNCHANGED <<metadata, TRANSFORMS, pipeline, ds>>

\* get_transforms(*names)
GetTransforms ==
    /\ \E names \in SeqsUpTo(Names, MaxNames) :
          LET r == get_transforms(names, TRANSFORMS)
          IN  pipeline' = [called |-> TRUE, args |-> names, kind |-> r.kind, names |-> r.names]
    /\ out' = NoOut
    /\ UNCHANGED <<metadata, TRANSFORMS, ds>>

\* Applying the returned callable to a sample.
CallPipeline ==
    /\ pipeline.called
    /\ Callable(pipeline)
    /\ \E x \in Samples, coins \in Coins(pipeline.names) :
          out' = [op |-> "call", x |-> x, coins |-> coins, value |-> Call(pipeline, x, coins)]
    /\ UNCHANGED <<metadata, TRANSFORMS, pipeline, ds>>

Next == Construct \/ GetItem \/ LenOp \/ IndexToFilename

Spec == Init /\ [][Next]_vars

NextPair == Construct \/ ConstructSibling

SpecPair == Init /\ [][NextPair]_vars

InitT ==
    /\ Init
    /\ metadata.ht = [i \in 1..NumSamples |-> 5]

NextT == GetTransforms \/ CallPipeline

SpecT == InitT /\ [][NextT]_vars

(***************************************************************************)
(* Properties.                                                             *)
(***************************************************************************)
Built(s) == ds[s].status = "ok"

Ids(self) == [i \in 1..Len(self.data) |-> self.data[i].id]

AllIds == 0..(NumSamples - 1)

Requested(self) == self.called.args

\* The label of original sample id under key, as the encoder derives it.
ExpectedLabel(key, id) ==
    encode_labels(metadata[key],
                  IF is_regression(key) THEN "regression" ELSE "classification",
                  None).labels[id + 1]

\* C1: in every state of an instance, len(data) = len(paths), and every
\* label tensor has the length of data.
C1_LengthsAgree ==
    \A s \in Slots : Built(s) =>
        /\ Len(ds[s].data) = Len(ds[s].paths)
        /\ \A j \in DOMAIN ds[s].labels : Len(ds[s].labels[j]) = Len(ds[s].data)

\* C2: index_to_filename(dataset, i) is the path of the original sample
\* that data[i] holds, also after a split.
C2_FilenameOfServedSample ==
    out.op = "index_to_filename" =>
        out.value = Path(ds[out.slot].data[out.i + 1].id)

\* C3: with return_labels and a supplied label_classes mapping, the encoder
\* is called with the supplied class sequence of every classification key
\* that has one, and label_classes[k] is that sequence afterwards.
C3_SuppliedClassesReused ==
    \A s \in Slots :
        (Built(s) /\ Requested(ds[s]).return_labels
                  /\ ~IsNone(Requested(ds[s]).label_classes)) =>
            \A c \in Range(ds[s].called.enc_calls) :
                c.key \in DOMAIN Requested(ds[s]).label_classes =>
                    /\ c.classes = Requested(ds[s]).label_classes[c.key]
                    /\ ds[s].label_classes[c.key] = Requested(ds[s]).label_classes[c.key]

\* C4: a 'train' and a 'validate' instance built from the same archives with
\* the same val_size and the same seed argument hold disjoint sample sets
\* whose union is the full set.
C4_TrainValidatePartition ==
    (/\ Built(1) /\ Built(2)
     /\ Requested(ds[1]).split = "train" /\ Requested(ds[2]).split = "validate"
     /\ Requested(ds[1]).val_size # 0
     /\ Requested(ds[1]).val_size = Requested(ds[2]).val_size
     /\ Requested(ds[1]).seed = Requested(ds[2]).seed) =>
        /\ Range(Ids(ds[1])) \cap Range(Ids(ds[2])) = {}
        /\ Range(Ids(ds[1])) \cup Range(Ids(ds[2])) = AllIds
        /\ len(ds[1]) + len(ds[2]) = NumSamples

\* C5: with a val_size the constructor calls the splitter, whose two index
\* sets partition the samples, and the instance holds exactly the train
\* indices for 'train', exactly the validation indices for 'validate', and
\* the full set for split=None.
C5_HoldsRequestedSplit ==
    \A s \in Slots : (Built(s) /\ Requested(ds[s]).val_size # 0) =>
        LET c == ds[s].called
            n_test == (Requested(ds[s]).val_size * NumSamples + 99) \div 100
        IN  /\ c.split_called
            /\ Range(c.train_indices) \cap Range(c.val_indices) = {}
            /\ Range(c.train_indices) \cup Range(c.val_indices) = AllIds
            /\ Len(c.val_indices) = n_test
            /\ Len(c.train_indices) = NumSamples - n_test
            /\ Requested(ds[s]).split = "train" =>
                  /\ Range(Ids(ds[s])) = Range(c.train_indices)
                  /\ len(ds[s]) = Len(c.train_indices)
            /\ Requested(ds[s]).split = "validate" =>
                  /\ Range(Ids(ds[s])) = Range(c.val_indices)
                  /\ len(ds[s]) = Len(c.val_indices)
            /\ Requested(ds[s]).split = "None" =>
                  Ids(ds[s]) = [i \in 1..NumSamples |-> i - 1]

C5_Witness ==
    /\ Built(1)
    /\ Requested(ds[1]).split = "validate"
    /\ Requested(ds[1]).val_size = 25
    /\ ds[1].called.split_called
    /\ len(ds[1]) < Len(ds[1].called.train_indices)

\* C9: the samples of an instance are in insertion order: positions i < j
\* hold original samples with increasing original index, also after a split.
C9_InsertionOrder ==
    \A s \in Slots : Built(s) =>
        \A i, j \in 1..Len(ds[s].data) :
            i < j => ds[s].data[i].id < ds[s].data[j].id

\* C10: after the split every label tensor is narrowed like data: labels[j][i]
\* is the label, under key label_type[j], of the original sample held by
\* data[i]; the number of tensors and the key order are those requested.
C10_LabelsFollowData ==
    \A s \in Slots : (Built(s) /\ Requested(ds[s]).return_labels) =>
        /\ ds[s].label_type = ds[s].called.label_type
        /\ Len(ds[s].labels) = Len(ds[s].label_type)
        /\ \A j \in DOMAIN ds[s].labels :
              /\ Len(ds[s].labels[j]) = Len(ds[s].data)
              /\ \A i \in 1..Len(ds[s].data) :
                    ds[s].labels[j][i] = ExpectedLabel(ds[s].label_type[j], ds[s].data[i].id)

C10_Witness ==
    /\ Built(1)
    /\ Requested(ds[1]).split = "train"
    /\ ds[1].called.split_called
    /\ ds[1].label_type = <<"ht", "time">>
    /\ ds[1].data[1].id # 0
    /\ \E i \in 1..Len(ds[1].data) : ds[1].labels[1][i] # ds[1].labels[1][1]

\* The stages of names applied to x from the first to the last, defined from
\* the last stage inwards.
RECURSIVE InOrder(_, _, _)
InOrder(names, x, coins) ==
    IF names = <<>> THEN x
    ELSE LET n == Len(names)
         IN  ApplyTransform(names[n], InOrder(SubSeq(names, 1, n - 1), x, coins), coins[n])

\* What an access returned, against the instance it was made on; the stored
\* data carry no transform.
C8_State ==
    /\ \A s \in Slots : Built(s) => \A i \in DOMAIN ds[s].data : ds[s].data[i].ops = <<>>
    /\ out.op = "getitem" =>
          LET self == ds[out.slot]
              x == self.data[out.i + 1]
          IN  /\ out.value.sample =
                    IF self.transform = NoTransform THEN x
                    ELSE InOrder(self.transform.names, x, out.coins)
              /\ out.value.paired = Requested(self).return_labels
              /\ ~out.value.paired => IsNone(out.value.labels)
              /\ out.value.paired =>
                    /\ Len(out.value.labels) = Len(self.called.label_type)
                    /\ \A j \in DOMAIN out.value.labels :
                          /\ out.value.labels[j] = self.labels[j][out.i + 1]
                          /\ out.value.labels[j] = ExpectedLabel(self.label_type[j], x.id)

\* C8: __getitem__(i) returns the transformed data[i] alone without labels,
\* else the pair of it and the tuple of labels[j][i], one per requested key
\* in label_type order; the transform runs at access time only, and the
\* access leaves the instance (data, labels, paths, label_classes) unchanged.
C8_GetItemContract ==
    [](C8_State) /\ [][out'.op = "getitem" => ds' = ds]_vars

C8_Witness ==
    /\ out.op = "getitem"
    /\ out.value.paired
    /\ ds[out.slot].label_type = <<"time", "ht">>
    /\ out.value.labels[1] # out.value.labels[2]
    /\ ds[out.slot].called.split_called
    /\ out.value.sample.ops = <<"crop", "float", "rgb">>

\* C6: with every name registered, get_transforms returns the identity for
\* no name, the registered transform for one name, and otherwise a
\* composition that applies the transforms in the given order, repeated
\* names included.
C6_ComposeInOrder ==
    (pipeline.called /\ Range(pipeline.args) \subseteq TRANSFORMS) =>
        /\ Len(pipeline.args) = 0 => pipeline.kind = "identity"
        /\ Len(pipeline.args) = 1 => pipeline.kind = "single"
        /\ Len(pipeline.args) > 1 => pipeline.kind = "compose"
        /\ pipeline.names = pipeline.args
        /\ out.op = "call" =>
              /\ out.value = InOrder(pipeline.args, out.x, out.coins)
              /\ Len(pipeline.args) = 0 => out.value = out.x

C6_Witness ==
    /\ out.op = "call"
    /\ pipeline.args = <<"rgb", "rgb">>
    /\ out.value.chan = 9

\* C7: a name outside the registry, in any position, makes get_transforms
\* raise: nothing callable is returned, the registry stays as it was, and
\* no sample ever goes through a pipeline holding an unregistered key.
C7_UnknownNameRaises ==
    /\ TRANSFORMS = RegistryKeys
    /\ (pipeline.called /\ ~(Range(pipeline.args) \subseteq TRANSFORMS)) =>
          /\ pipeline.kind = "ValueError"
          /\ pipeline.names = <<>>
          /\ ~Callable(pipeline)
          /\ out.op # "call"
    /\ out.op = "call" => Range(pipeline.names) \subseteq TRANSFORMS

C7_Witness ==
    /\ pipeline.called
    /\ pipeline.args = <<"crop", "sharpen">>
    /\ pipeline.kind = "ValueError"
    /\ out = NoOut

====
